---- MODULE Spec2Model ----
(***************************************************************************)
(* Verification model of the driveyard memory-layout primitives:           *)
(*   quickdry::Arena  - bump-pointer arena over a growing list of slabs    *)
(*   soak::RawTable   - struct-of-arrays table in one backing allocation   *)
(*   dioptre::CellExt - projection of a Cell of a record onto its fields   *)
(* Addresses are natural numbers, NULL is 0.                               *)
(***************************************************************************)
EXTENDS Integers, Sequences, FiniteSets, TLC

----------------------------------------------------------------------------
(* Bit arithmetic shared by both components.                               *)

RECURSIVE BitAnd(_, _)
BitAnd(a, b) ==
    IF a = 0 \/ b = 0 THEN 0
    ELSE (a % 2) * (b % 2) + 2 * BitAnd(a \div 2, b \div 2)

\* x & !mask : the bits of x that are not in mask
AndNot(x, mask) == x - BitAnd(x, mask)

NULL == 0

----------------------------------------------------------------------------
(* quickdry::Arena                                                         *)

VARIABLES
    slabs,      \* Vec<Box<[u8]>> : sequence of [base, size], in push order
    next,       \* bump cursor
    end,        \* end of the current slab
    returned,   \* ranges handed out by the calls before the last one
    alast,      \* the last alloc call: its layout, result and pre-state
    acalls,     \* number of alloc calls made
    stdslab     \* index in slabs of the newest standard slab, 0 if none

avars == <<slabs, next, end, returned, alast, acalls, stdslab>>

SLAB_SIZE == 4096

\* ptr::dangling_mut::<u8>() : the alignment of u8 as an address
DANGLING == 1

\* Number of alloc calls explored
MaxAllocs == 4

\* Layouts requested by callers (size, power-of-two align)
ReqSizes == {0, 1, 4000, 4097}
ReqAligns == {1, 8, 8192}

\* Addresses the system allocator may hand out for a slab, below ArenaTop: far
\* enough from the top of the address space that next + align - 1 cannot wrap
SlabBases == {4099, 8195, 24576}
ArenaTop == 65536

align_to(size, align) == AndNot(size + align - 1, align - 1)

align_offset(size, align) == align_to(size, align) - size

Min(a, b) == IF a <= b THEN a ELSE b

\* Byte ranges [a, a+n) and [b, b+m) share no byte
Disjoint(a, n, b, m) == n = 0 \/ m = 0 \/ a + n <= b \/ b + m <= a

\* What alloc(Layout(size, 1)) may return: null, or a block clear of every
\* block the allocator has handed out and not got back.
SysAllocArena(sl, size) ==
    {NULL} \cup
    { b \in SlabBases :
        /\ b + size <= ArenaTop
        /\ \A i \in 1..Len(sl) : Disjoint(b, size, sl[i].base, sl[i].size) }

\* alloc_slab keeping only the newest slab
alloc_slab_replacing(self, size, got) ==
    IF got = NULL
    THEN [self |-> self, ptr |-> NULL]
    ELSE [self |-> [self EXCEPT !.slabs = <<[base |-> got, size |-> size]>>],
          ptr  |-> got]

\* Arena::alloc_slab with the allocator answering `got`
alloc_slab(self, size, got) ==
    IF got = NULL
    THEN [self |-> self, ptr |-> NULL]
    ELSE [self |-> [self EXCEPT !.slabs = Append(@, [base |-> got, size |-> size])],
          ptr  |-> got]

\* a multiplier that doubles with the first slab of every 128
slab_multiplier_ceil(len) == 2 ^ Min(30, (len + 127) \div 128)

\* 1 << cmp::min(30, slabs.len() / 128)
slab_multiplier(len) == 2 ^ Min(30, len \div 128)

\* size of the next standard slab; usize is 64 bits wide, so the product,
\* at most 2^42, does not wrap
standard_size(self) == SLAB_SIZE * slab_multiplier(Len(self.slabs))

\* alloc_new_slab whose one-off slab also becomes the current slab
alloc_new_slab_folding(self, size, align, got) ==
    LET padded == size + align - 1
        ssize == IF padded > SLAB_SIZE THEN padded ELSE standard_size(self)
        r == alloc_slab(self, ssize, got) IN
    IF r.ptr = NULL
    THEN [self |-> r.self, ptr |-> NULL,
          path |-> IF padded > SLAB_SIZE THEN "oneoff" ELSE "standard"]
    ELSE LET p == r.ptr + align_offset(r.ptr, align) IN
         [self |-> [r.self EXCEPT !.next = p + size, !.end = r.ptr + ssize],
          ptr  |-> p,
          path |-> IF padded > SLAB_SIZE THEN "oneoff" ELSE "standard"]

\* alloc_new_slab measuring the end of the slab from the advanced cursor
alloc_new_slab_long_end(self, size, align, got) ==
    LET padded == size + align - 1 IN
    IF padded > SLAB_SIZE
    THEN LET r == alloc_slab(self, padded, got) IN
         IF r.ptr = NULL
         THEN [self |-> r.self, ptr |-> NULL, path |-> "oneoff"]
         ELSE [self |-> r.self,
               ptr  |-> r.ptr + align_offset(r.ptr, align),
               path |-> "oneoff"]
    ELSE LET ssize == standard_size(self)
             r == alloc_slab(self, ssize, got) IN
         IF r.ptr = NULL
         THEN [self |-> r.self, ptr |-> NULL, path |-> "standard"]
         ELSE LET p == r.ptr + align_offset(r.ptr, align) IN
              [self |-> [r.self EXCEPT !.next = p + size, !.end = p + size + ssize],
               ptr  |-> p,
               path |-> "standard"]

\* alloc_new_slab without the null checks after alloc_slab
alloc_new_slab_unchecked(self, size, align, got) ==
    LET padded == size + align - 1 IN
    IF padded > SLAB_SIZE
    THEN LET r == alloc_slab(self, padded, got) IN
         [self |-> r.self, ptr |-> r.ptr + align_offset(r.ptr, align), path |-> "oneoff"]
    ELSE LET ssize == standard_size(self)
             r == alloc_slab(self, ssize, got)
             p == r.ptr + align_offset(r.ptr, align) IN
         [self |-> [r.self EXCEPT !.next = p + size, !.end = r.ptr + ssize],
          ptr  |-> p,
          path |-> "standard"]

\* Arena::alloc_new_slab with the allocator answering `got`
alloc_new_slab(self, size, align, got) ==
    LET padded == size + align - 1 IN
    IF padded > SLAB_SIZE
    THEN LET r == alloc_slab(self, padded, got) IN
         IF r.ptr = NULL
         THEN [self |-> r.self, ptr |-> NULL, path |-> "oneoff"]
         ELSE [self |-> r.self,
               ptr  |-> r.ptr + align_offset(r.ptr, align),
               path |-> "oneoff"]
    ELSE LET ssize == standard_size(self)
             r == alloc_slab(self, ssize, got) IN
         IF r.ptr = NULL
         THEN [self |-> r.self, ptr |-> NULL, path |-> "standard"]
         ELSE LET p == r.ptr + align_offset(r.ptr, align) IN
              [self |-> [r.self EXCEPT !.next = p + size, !.end = r.ptr + ssize],
               ptr  |-> p,
               path |-> "standard"]

\* a fast-path test that leaves the alignment padding out
fits_unpadded(self, size, align) == size <= self.end - self.next

\* the fast-path test of Arena::alloc
fits(self, size, align) ==
    align_offset(self.next, align) + size <= self.end - self.next

\* the size the slow path asks the system allocator for
slab_request(self, size, align) ==
    IF size + align - 1 > SLAB_SIZE THEN size + align - 1 ELSE standard_size(self)

\* Arena::alloc advancing the cursor from `next` instead of from the aligned address
Arena_alloc_unpadded(self, size, align, got) ==
    IF fits(self, size, align)
    THEN LET p == self.next + align_offset(self.next, align) IN
         [self |-> [self EXCEPT !.next = self.next + size], ptr |-> p, path |-> "fast"]
    ELSE alloc_new_slab(self, size, align, got)

\* Arena::alloc with the allocator answering `got` on the slow path
Arena_alloc(self, size, align, got) ==
    IF fits(self, size, align)
    THEN LET p == self.next + align_offset(self.next, align) IN
         [self |-> [self EXCEPT !.next = p + size], ptr |-> p, path |-> "fast"]
    ELSE alloc_new_slab(self, size, align, got)

ArenaSelf == [slabs |-> slabs, next |-> next, end |-> end]

NoCall == [path |-> "none", size |-> 0, align |-> 1, ptr |-> NULL, failed |-> FALSE,
           next0 |-> DANGLING, end0 |-> DANGLING, slabs0 |-> <<>>]

\* Arena::default
ArenaInit ==
    /\ slabs = <<>>
    /\ next = DANGLING
    /\ end = DANGLING
    /\ returned = {}
    /\ alast = NoCall
    /\ acalls = 0
    /\ stdslab = 0

\* The ranges handed out so far, the last call's included
Handed ==
    returned \cup
    (IF alast.ptr = NULL THEN {}
     ELSE {[addr |-> alast.ptr, size |-> alast.size, path |-> alast.path]})

\* One call of Arena::alloc
Alloc ==
    /\ acalls < MaxAllocs
    /\ \E size \in ReqSizes, align \in ReqAligns :
       \E got \in (IF fits(ArenaSelf, size, align) THEN {NULL}
                   ELSE SysAllocArena(slabs, slab_request(ArenaSelf, size, align))) :
          LET r == Arena_alloc(ArenaSelf, size, align, got) IN
          /\ slabs' = r.self.slabs
          /\ next' = r.self.next
          /\ end' = r.self.end
          /\ returned' = Handed
          /\ alast' = [path |-> r.path, size |-> size, align |-> align, ptr |-> r.ptr,
                       failed |-> r.path # "fast" /\ got = NULL,
                       next0 |-> next, end0 |-> end, slabs0 |-> slabs]
          /\ acalls' = acalls + 1
          /\ stdslab' = IF r.path = "standard" /\ r.ptr # NULL
                        THEN Len(r.self.slabs) ELSE stdslab

----------------------------------------------------------------------------
(* The slab list of a long-lived arena, by count and size alone. Sizes are *)
(* kept in units of SLAB_SIZE.                                             *)

VARIABLES
    nslabs,     \* slabs.len()
    stdunits,   \* size of the newest standard slab / SLAB_SIZE, 0 if none
    glast       \* the last slab request: kind, slabs.len() before, size, stdunits before

gvars == <<nslabs, stdunits, glast>>

\* Number of slabs explored: past 30 * 128, where the multiplier stops doubling
MaxSlabs == 3900

NoRequest == [kind |-> "none", k0 |-> 0, units |-> 0, prev |-> 0]

GrowthInit ==
    /\ nslabs = 0
    /\ stdunits = 0
    /\ glast = NoRequest

\* alloc_new_slab pushing a standard slab
GrowStandard ==
    /\ nslabs < MaxSlabs
    /\ nslabs' = nslabs + 1
    /\ stdunits' = slab_multiplier(nslabs)
    /\ glast' = [kind |-> "standard", k0 |-> nslabs,
                 units |-> slab_multiplier(nslabs), prev |-> stdunits]

\* alloc_new_slab pushing a one-off slab
GrowOneOff ==
    /\ nslabs < MaxSlabs
    /\ nslabs' = nslabs + 1
    /\ glast' = [kind |-> "oneoff", k0 |-> nslabs, units |-> 0, prev |-> stdunits]
    /\ UNCHANGED stdunits

\* alloc_slab refused by the system allocator: nothing is pushed
GrowRefused ==
    /\ nslabs < MaxSlabs
    /\ glast' = [kind |-> "refused", k0 |-> nslabs, units |-> 0, prev |-> stdunits]
    /\ UNCHANGED <<nslabs, stdunits>>

----------------------------------------------------------------------------
(* Two arenas over one system allocator                                    *)

VARIABLES
    yard,       \* arena name -> [self, live, returned]
    sysheap,    \* blocks [base, size] the system allocator has out
    ycalls      \* alloc calls made on either arena

yvars == <<yard, sysheap, ycalls>>

Arenas == {"A", "B"}

\* Layouts requested from the two arenas <<size, align>>
YardLayouts == {<<0, 1>>, <<8, 8>>, <<4000, 1>>, <<4097, 1>>}

\* What alloc(Layout(size, 1)) may return when `out` is what the allocator
\* has handed out and not got back
SysAllocShared(out, size) ==
    {NULL} \cup
    { b \in SlabBases :
        /\ b + size <= ArenaTop
        /\ \A blk \in out : Disjoint(b, size, blk.base, blk.size) }

Blocks(sl) == { sl[i] : i \in 1..Len(sl) }

ArenaDefault == [slabs |-> <<>>, next |-> DANGLING, end |-> DANGLING]

\* no Arena exists yet but the two made by Arena::default
YardInit ==
    /\ yard = [x \in Arenas |-> [self |-> ArenaDefault, live |-> TRUE, returned |-> {}]]
    /\ sysheap = {}
    /\ ycalls = 0

\* dropping an arena gives back every block the allocator has out
drop_everything(self, out) == out

\* dropping an Arena drops its Vec<Box<[u8]>>: each slab goes back to the
\* allocator; the result is what the allocator still has out
drop_arena(self, out) == out \ Blocks(self.slabs)

\* one call of alloc on arena x
YAlloc(x) ==
    /\ yard[x].live
    /\ ycalls < MaxAllocs
    /\ \E l \in YardLayouts :
       LET self == yard[x].self IN
       \E got \in (IF fits(self, l[1], l[2]) THEN {NULL}
                   ELSE SysAllocShared(sysheap, slab_request(self, l[1], l[2]))) :
          LET r == Arena_alloc(self, l[1], l[2], got) IN
          /\ yard' = [yard EXCEPT ![x].self = r.self,
                                  ![x].returned =
                                      IF r.ptr = NULL THEN @
                                      ELSE @ \cup {[addr |-> r.ptr, size |-> l[1]]}]
          /\ sysheap' = sysheap \cup Blocks(r.self.slabs)
          /\ ycalls' = ycalls + 1

\* arena x goes out of scope; nothing of it can be used afterwards
YDrop(x) ==
    /\ yard[x].live
    /\ sysheap' = drop_arena(yard[x].self, sysheap)
    /\ yard' = [yard EXCEPT ![x] = [self |-> ArenaDefault, live |-> FALSE, returned |-> {}]]
    /\ UNCHANGED ycalls

----------------------------------------------------------------------------
(* dioptre::ext::CellExt over a record with derived Fields                 *)

VARIABLES
    fields,     \* the record type S: sequence of [size, align], in declaration order
    offsets,    \* where the compiler put each field inside S
    object,     \* address of the Cell<S>
    bytes,      \* memory around the record
    plast       \* the last project(field).set(v): field index, v, memory before

dvars == <<fields, offsets, object, bytes, plast>>

Fld(size, align) == [size |-> size, align |-> align]

\* struct Data { x: i32, y: i32 } and records with mixed and zero-sized fields
RecordTypes == { <<Fld(4, 4), Fld(4, 4)>>,
                 <<Fld(1, 1), Fld(2, 2), Fld(1, 1)>>,
                 <<Fld(0, 1), Fld(2, 2)>> }

ObjectAddrs == {8, 24}
CellMemory == 1..32

\* values stored through a projection, and whether a field of `size` bytes holds them
CellValues == {8, 13, 258}
Holds(size, v) == size >= 2 \/ (size = 1 /\ v < 256) \/ (size = 0 /\ v = 8)

RECURSIVE struct_size(_, _)
struct_size(rt, A) ==
    IF rt = <<>> THEN 0 ELSE align_to(rt[1].size, A) + struct_size(Tail(rt), A)

RECURSIVE struct_align(_)
struct_align(rt) ==
    IF rt = <<>> THEN 1
    ELSE LET a == struct_align(Tail(rt)) IN IF rt[1].align > a THEN rt[1].align ELSE a

\* size_of::<S>() : room for every field at its alignment
size_of_S(rt) == struct_size(rt, struct_align(rt))

\* The layouts the compiler may give S: fields aligned, inside S, sharing no
\* byte, in any order
Layouts(rt) ==
    { offs \in [1..Len(rt) -> 0..size_of_S(rt)] :
        /\ \A i \in 1..Len(rt) :
              /\ offs[i] % rt[i].align = 0
              /\ offs[i] + rt[i].size <= size_of_S(rt)
        /\ \A i, j \in 1..Len(rt) :
              i # j => Disjoint(offs[i], rt[i].size, offs[j], rt[j].size) }

\* the handle Data::x : Field::new(index)
Field(index) == [index |-> index]

\* S::OFFSETS[i](object) : address of the field minus address of the object
OFFSETS(offs, i, obj) == (obj + offs[i]) - obj

\* project taking the field's place from its index and size
project_by_index(rt, offs, self, field) ==
    self + (field.index - 1) * rt[field.index].size

\* CellExt::project : the address of the Cell<T> it returns
project(rt, offs, self, field) == self + OFFSETS(offs, field.index, self)

\* byte k of the representation of v in a field of `size` bytes
Encode(v, size) == [k \in 1..size |-> (v \div (256 ^ (k - 1))) % 256]

\* Cell<T>::set(v) at addr, T of `size` bytes
Cell_set(m, addr, size, v) ==
    [a \in DOMAIN m |->
        IF addr <= a /\ a < addr + size THEN Encode(v, size)[a - addr + 1] ELSE m[a]]

\* the bytes of a field of `size` bytes at addr
FieldBytes(m, addr, size) == [k \in 1..size |-> m[addr + k - 1]]

NoProjection == [index |-> 0, v |-> 0, before |-> <<>>]

\* let rc = Cell::from_mut(&mut data)
CellInit ==
    /\ fields \in RecordTypes
    /\ offsets \in Layouts(fields)
    /\ object \in ObjectAddrs
    /\ bytes = [a \in CellMemory |-> 100 + a]
    /\ plast = NoProjection

\* no Cell in the program
CellIdle ==
    /\ fields = <<>>
    /\ offsets = <<>>
    /\ object = 8
    /\ bytes = <<>>
    /\ plast = NoProjection

\* rc.project(field).set(v)
ProjectSet ==
    \E i \in 1..Len(fields) : \E v \in CellValues :
        /\ Holds(fields[i].size, v)
        /\ bytes' = Cell_set(bytes, project(fields, offsets, object, Field(i)),
                             fields[i].size, v)
        /\ plast' = [index |-> i, v |-> v, before |-> bytes]
        /\ UNCHANGED <<fields, offsets, object>>

----------------------------------------------------------------------------
(* soak::RawTable                                                          *)

VARIABLES
    schema,           \* Columns of T: sequence of [size, align], in field order
    overflow_checks,  \* the build: TRUE panics on `-` overflow, FALSE wraps
    tstatus,          \* "none", "live", "dropped", "aborted"
    pointers,         \* T::Pointers
    capacity,         \* RawTable::capacity
    heap,             \* blocks the system allocator has out: [base, size, align]
    mem,              \* contents of memory, byte by byte (0: never allocated or freed)
    nalloc,           \* calls of alloc so far
    ndealloc,         \* calls of dealloc so far
    misfreed,         \* dealloc calls whose (address, size, align) matched no block out
    tlast,            \* the last table operation: inputs, outcome, pre-state
    tops              \* reallocations made by reserve_exact

tvars == <<schema, overflow_checks, tstatus, pointers, capacity, heap, mem,
           nalloc, ndealloc, misfreed, tlast, tops>>

\* Width of usize in the model
WordBits == 7
UsizeMax == 2 ^ WordBits - 1

\* Reallocations by reserve_exact explored on one table
MaxOps == 2
\* The data sets a caller fills the table with
Seeds == {1, 2}

\* The heap the system allocator serves, and the addresses it may answer with
Memory == 1..95
HeapAddrs == 16..95
AllocSites == {16, 20, 22, 48}

\* Record types: no field; zero-sized fields only; the test's Data {u8, u32, u64};
\* two fields of equal alignment; a zero-sized field among sized ones
Col(size, align) == [size |-> size, align |-> align]
Schemas ==
    { <<>>,
      <<Col(0, 1), Col(0, 4)>>,
      <<Col(1, 1), Col(4, 4), Col(8, 8)>>,
      <<Col(2, 2), Col(2, 2)>>,
      <<Col(1, 1), Col(0, 4), Col(2, 2)>> }

\* Arguments callers pass
CapInputs == {0, 1, 2, 3, UsizeMax \div 4 + 1, UsizeMax \div 2 + 1, UsizeMax}
UsedInputs == {0, 1, 2, UsizeMax}
ExtraInputs == {0, 1, 2, UsizeMax}

NONE == -1

Wrap(x) == x % (UsizeMax + 1)

checked_mul(a, b) == IF a * b > UsizeMax THEN NONE ELSE a * b

checked_add(a, b) == IF a + b > UsizeMax THEN NONE ELSE a + b

\* !x on usize
Not(x) == UsizeMax - x

RECURSIVE MaxOf(_, _)
MaxOf(seq, dflt) ==
    IF seq = <<>> THEN dflt
    ELSE LET m == MaxOf(Tail(seq), dflt) IN
         IF Tail(seq) = <<>> \/ Head(seq) >= m THEN Head(seq) ELSE m

\* T::ALIGNS.iter().cloned().max().unwrap_or(1)
max_align(sch) == MaxOf([i \in 1..Len(sch) |-> sch[i].align], 1)

RECURSIVE Sum(_)
Sum(seq) == IF seq = <<>> THEN 0 ELSE Head(seq) + Sum(Tail(seq))

\* size_of taken to be zero only for a record without fields
size_of_T_by_count(sch) == Len(sch)

\* mem::size_of::<T>() : the fields, padded to the record's alignment
size_of_T(sch) ==
    LET a == max_align(sch)
        raw == Sum([i \in 1..Len(sch) |-> sch[i].size]) IN
    ((raw + a - 1) \div a) * a

\* the closure folded over T::SIZES: the checked total of the rounded spans
RECURSIVE total_size(_, _, _, _, _)
total_size(sch, i, sum, cap, mask) ==
    IF i > Len(sch) THEN sum
    ELSE LET array_size == checked_mul(cap, sch[i].size) IN
         IF array_size = NONE THEN NONE
         ELSE LET padded == checked_add(array_size, mask) IN
              IF padded = NONE THEN NONE
              ELSE LET aligned_size == BitAnd(padded, Not(mask))
                       acc == checked_add(sum, aligned_size) IN
                   IF acc = NONE THEN NONE
                   ELSE total_size(sch, i + 1, acc, cap, mask)

\* the span of a field array without the rounding to the alignment
span_unrounded(cap, size, mask) == Wrap(cap * size)

\* (capacity * size + mask) & !mask, unchecked
span(cap, size, mask) == BitAnd(Wrap(Wrap(cap * size) + mask), Not(mask))

\* a pointer loop that advances the offset before it stores the pointer
RECURSIVE field_offset_after(_, _, _, _)
field_offset_after(sch, i, cap, mask) ==
    IF i < 1 THEN 0
    ELSE Wrap(field_offset_after(sch, i - 1, cap, mask) + span(cap, sch[i].size, mask))

\* the running offset of field i in the pointer loop
RECURSIVE field_offset(_, _, _, _)
field_offset(sch, i, cap, mask) ==
    IF i <= 1 THEN 0
    ELSE Wrap(field_offset(sch, i - 1, cap, mask) + span(cap, sch[i - 1].size, mask))

\* T::dangling()
dangling(sch) == [i \in 1..Len(sch) |-> sch[i].align]

\* What alloc(layout) may return with blocks hp out: null, or an aligned block
\* inside the heap clear of every block that is out
SysAlloc(hp, size, align) ==
    {NULL} \cup
    { b \in AllocSites :
        /\ b % align = 0
        /\ \A a \in b..(b + size - 1) : a \in HeapAddrs
        /\ \A blk \in hp : Disjoint(b, size, blk.base, blk.size) }

\* RawTable::default
RawTable_default(sch) ==
    [pointers |-> dangling(sch),
     capacity |-> IF size_of_T(sch) = 0 THEN UsizeMax ELSE 0]

\* the size with_capacity asks the allocator for (NONE on overflow)
request_size(sch, cap) == total_size(sch, 1, 0, cap, max_align(sch) - 1)

\* with_capacity whose empty table points every field at the u8 sentinel
with_capacity_u8_sentinel(sch, cap, got) ==
    LET align == max_align(sch)
        mask == align - 1
        size == request_size(sch, cap) IN
    IF size = NONE
    THEN [outcome |-> "capacity overflow"]
    ELSE LET data == IF size = 0 THEN DANGLING ELSE got IN
         IF data = NULL
         THEN [outcome |-> "abort"]
         ELSE [outcome  |-> "ok",
               pointers |-> [i \in 1..Len(sch) |-> data + field_offset(sch, i, cap, mask)],
               capacity |-> IF size_of_T(sch) = 0 THEN UsizeMax ELSE cap,
               blocks   |-> IF size = 0 THEN {}
                            ELSE {[base |-> data, size |-> size, align |-> align]}]

\* RawTable::with_capacity with the allocator answering `got`
with_capacity(sch, cap, got) ==
    LET align == max_align(sch)
        mask == align - 1
        size == request_size(sch, cap) IN
    IF size = NONE
    THEN [outcome |-> "capacity overflow"]
    ELSE LET data == IF size = 0 THEN align ELSE got IN
         IF data = NULL
         THEN [outcome |-> "abort"]
         ELSE [outcome  |-> "ok",
               pointers |-> [i \in 1..Len(sch) |-> data + field_offset(sch, i, cap, mask)],
               capacity |-> IF size_of_T(sch) = 0 THEN UsizeMax ELSE cap,
               blocks   |-> IF size = 0 THEN {}
                            ELSE {[base |-> data, size |-> size, align |-> align]}]

\* the size Drop would compute from the element bytes alone, without padding
drop_size_unpadded(sch, cap) ==
    Wrap(Sum([i \in 1..Len(sch) |-> Wrap(cap * sch[i].size)]))

\* the layout Drop computes, and whether it calls dealloc
drop_size(sch, cap) ==
    LET mask == max_align(sch) - 1 IN
    Wrap(Sum([i \in 1..Len(sch) |-> span(cap, sch[i].size, mask)]))

\* the dealloc(pointers[0], layout) call Drop makes, if it makes one
dealloc_args(sch, ptrs, cap) ==
    IF drop_size(sch, cap) > 0
    THEN {[base |-> ptrs[1], size |-> drop_size(sch, cap), align |-> max_align(sch)]}
    ELSE {}

\* the blocks dealloc(pointers[0], layout) gives back: the block that was
\* granted at that address with that size and alignment
dropped_blocks(sch, ptrs, cap, hp) == dealloc_args(sch, ptrs, cap) \cap hp

\* ptr::copy_nonoverlapping(src, dst, count) on memory m
copy_nonoverlapping(m, src, dst, count) ==
    [a \in DOMAIN m |->
        IF dst <= a /\ a < dst + count /\ (src + (a - dst)) \in DOMAIN m
        THEN m[src + (a - dst)] ELSE m[a]]

\* the byte count of a copy of the live prefix only
copy_len_used(cap, used, size) == Wrap(used * size)

\* the byte count of a copy that forgets the element size
copy_len_elements(cap, used, size) == cap

\* the byte count of one field's copy in reserve_exact
copy_len(cap, used, size) == Wrap(cap * size)

\* the copy loop of reserve_exact, fields i..N
RECURSIVE copy_fields(_, _, _, _, _, _, _)
copy_fields(m, sch, i, src, dst, cap, used) ==
    IF i > Len(sch) THEN m
    ELSE copy_fields(copy_nonoverlapping(m, src[i], dst[i], copy_len(cap, used, sch[i].size)),
                     sch, i + 1, src, dst, cap, used)

\* the test at the head of reserve_exact with `>` for `>=`
headroom_strict(cap, used, extra, checks) ==
    IF cap < used /\ checks THEN "subtract overflow"
    ELSE IF Wrap(cap - used) > extra THEN "return"
    ELSE "grow"

\* the test at the head of reserve_exact: the subtraction panics in a build with
\* overflow checks and wraps in one without; then "return" or "grow"
headroom(cap, used, extra, checks) ==
    IF cap < used /\ checks THEN "subtract overflow"
    ELSE IF Wrap(cap - used) >= extra THEN "return"
    ELSE "grow"

\* memory with the bytes of the blocks set to v
Fill(m, blocks, v) ==
    [a \in DOMAIN m |->
        IF \E blk \in blocks : blk.base <= a /\ a < blk.base + blk.size THEN v ELSE m[a]]

\* RawTable::ptr
ptr(field) == pointers[field]

\* the element at index i of a field array, read byte by byte
Elem(m, ptrs, sch, f, i) ==
    [k \in 0..(sch[f].size - 1) |-> m[ptrs[f] + i * sch[f].size + k]]

NoOp == [op |-> "none", a |-> 0, b |-> 0, outcome |-> "none",
         capacity0 |-> 0, pointers0 |-> <<>>, mem0 |-> <<>>,
         nalloc0 |-> 0, ndealloc0 |-> 0, heap0 |-> {}]

Did(op, a, b, outcome) ==
    [op |-> op, a |-> a, b |-> b, outcome |-> outcome,
     capacity0 |-> capacity, pointers0 |-> pointers, mem0 |-> mem,
     nalloc0 |-> nalloc, ndealloc0 |-> ndealloc, heap0 |-> heap]

TableIdle ==
    /\ tstatus = "none"
    /\ pointers = <<>>
    /\ capacity = 0
    /\ heap = {}
    /\ mem = [a \in Memory |-> 0]
    /\ nalloc = 0
    /\ ndealloc = 0
    /\ misfreed = {}
    /\ tlast = NoOp
    /\ tops = 0

TableInit ==
    /\ schema \in Schemas
    /\ overflow_checks \in BOOLEAN
    /\ TableIdle

\* let table = RawTable::default()
TDefault ==
    /\ tstatus = "none"
    /\ LET t == RawTable_default(schema) IN
       /\ pointers' = t.pointers
       /\ capacity' = t.capacity
    /\ tstatus' = "live"
    /\ tlast' = Did("default", 0, 0, "ok")
    /\ UNCHANGED <<schema, overflow_checks, heap, mem, nalloc, ndealloc, misfreed, tops>>
    /\ UNCHANGED <<avars, gvars, yvars, dvars>>

\* the effect of a with_capacity result r on allocator and memory; fresh bytes
\* hold junk that differs from one allocation to the next
Allocated(r) ==
    /\ heap' = heap \cup r.blocks
    /\ mem' = Fill(mem, r.blocks, -(nalloc + 1))

\* let table = RawTable::with_capacity(cap)
TWithCapacity ==
    /\ tstatus = "none"
    /\ \E cap \in CapInputs :
       LET size == request_size(schema, cap) IN
       \E got \in (IF size = NONE \/ size = 0 THEN {NULL}
                   ELSE SysAlloc(heap, size, max_align(schema))) :
          LET r == with_capacity(schema, cap, got) IN
          /\ tlast' = Did("with_capacity", cap, 0, r.outcome)
          /\ nalloc' = IF size = NONE \/ size = 0 THEN nalloc ELSE nalloc + 1
          /\ IF r.outcome = "ok"
             THEN /\ pointers' = r.pointers
                  /\ capacity' = r.capacity
                  /\ tstatus' = "live"
                  /\ Allocated(r)
             ELSE /\ tstatus' = IF r.outcome = "abort" THEN "aborted" ELSE "none"
                  /\ UNCHANGED <<pointers, capacity, heap, mem>>
    /\ UNCHANGED <<schema, overflow_checks, ndealloc, misfreed, tops>>
    /\ UNCHANGED <<avars, gvars, yvars, dvars>>

\* The byte the caller stores at byte k of element i of field f
Pattern(seed, f, i, k) == seed * 1000 + f * 100 + i * 10 + k + 1

\* memory after the caller writes every element below cap of every field, through
\* the field pointers
Written(m, sch, ptrs, cap, seed) ==
    [a \in DOMAIN m |->
        IF \E f \in 1..Len(sch) :
              sch[f].size > 0 /\ ptrs[f] <= a /\ a < ptrs[f] + cap * sch[f].size
        THEN LET f == CHOOSE g \in 1..Len(sch) :
                        sch[g].size > 0 /\ ptrs[g] <= a /\ a < ptrs[g] + cap * sch[g].size
                 off == a - ptrs[f] IN
             Pattern(seed, f, off \div sch[f].size, off % sch[f].size)
        ELSE m[a]]

\* the caller fills the table: ptr::write(ptr(field).add(i), ..) for every field
\* and every i below capacity()
TFill ==
    /\ tstatus = "live"
    /\ size_of_T(schema) > 0
    /\ capacity > 0
    /\ \E seed \in Seeds :
          /\ mem' = Written(mem, schema, pointers, capacity, seed)
          /\ tlast' = Did("fill", seed, 0, "ok")
    /\ UNCHANGED <<schema, overflow_checks, tstatus, pointers, capacity, heap,
                   nalloc, ndealloc, misfreed, tops>>
    /\ UNCHANGED <<avars, gvars, yvars, dvars>>

\* the capacity reserve_exact constructs the new table with (NONE: it does not)
grown_capacity(cap, used, extra, checks) ==
    IF headroom(cap, used, extra, checks) = "grow" THEN checked_add(used, extra) ELSE NONE

\* reserve_exact growing to at least twice the old capacity
reserve_exact_doubling(self, sch, used, extra, got, checks) ==
    LET h == headroom(self.capacity, used, extra, checks) IN
    IF h # "grow"
    THEN [outcome |-> h]
    ELSE LET cap == checked_add(used, extra) IN
         IF cap = NONE
         THEN [outcome |-> "capacity overflow"]
         ELSE LET twice == Wrap(2 * self.capacity)
                  table == with_capacity(sch, IF cap >= twice THEN cap ELSE twice, got) IN
              IF table.outcome # "ok"
              THEN [outcome |-> table.outcome]
              ELSE [outcome |-> "grown", table |-> table]

\* reserve_exact building the new table for `extra` elements only
reserve_exact_extra_only(self, sch, used, extra, got, checks) ==
    LET h == headroom(self.capacity, used, extra, checks) IN
    IF h # "grow"
    THEN [outcome |-> h]
    ELSE LET cap == checked_add(used, extra) IN
         IF cap = NONE
         THEN [outcome |-> "capacity overflow"]
         ELSE LET table == with_capacity(sch, extra, got) IN
              IF table.outcome # "ok"
              THEN [outcome |-> table.outcome]
              ELSE [outcome |-> "grown", table |-> table]

\* RawTable::reserve_exact on self = [pointers, capacity], allocator answering `got`
reserve_exact(self, sch, used, extra, got, checks) ==
    LET h == headroom(self.capacity, used, extra, checks) IN
    IF h # "grow"
    THEN [outcome |-> h]
    ELSE LET cap == checked_add(used, extra) IN
         IF cap = NONE
         THEN [outcome |-> "capacity overflow"]
         ELSE LET table == with_capacity(sch, cap, got) IN
              IF table.outcome # "ok"
              THEN [outcome |-> table.outcome]
              ELSE [outcome |-> "grown", table |-> table]

\* table.reserve_exact(used, extra)
TReserve ==
    /\ tstatus = "live"
    /\ tops < MaxOps
    /\ \E used \in UsedInputs, extra \in ExtraInputs :
       LET cap == grown_capacity(capacity, used, extra, overflow_checks)
           size == IF cap = NONE THEN NONE ELSE request_size(schema, cap)
           calls == size # NONE /\ size # 0 IN
       \E got \in (IF calls THEN SysAlloc(heap, size, max_align(schema)) ELSE {NULL}) :
          LET self == [pointers |-> pointers, capacity |-> capacity]
              r == reserve_exact(self, schema, used, extra, got, overflow_checks) IN
          /\ tlast' = Did("reserve_exact", used, extra, r.outcome)
          /\ tops' = IF r.outcome = "grown" THEN tops + 1 ELSE tops
          /\ nalloc' = IF calls THEN nalloc + 1 ELSE nalloc
          /\ IF r.outcome = "grown"
             THEN LET old == dropped_blocks(schema, pointers, capacity, heap)
                      fresh == Fill(mem, r.table.blocks, -(nalloc + 1))
                      copied == copy_fields(fresh, schema, 1, pointers,
                                            r.table.pointers, capacity, used) IN
                  /\ pointers' = r.table.pointers
                  /\ capacity' = r.table.capacity
                  /\ heap' = (heap \cup r.table.blocks) \ old
                  /\ mem' = Fill(copied, old, 0)
                  /\ ndealloc' = IF drop_size(schema, capacity) > 0
                                 THEN ndealloc + 1 ELSE ndealloc
                  /\ misfreed' = misfreed \cup
                                    (dealloc_args(schema, pointers, capacity) \ heap)
                  /\ tstatus' = "live"
             ELSE /\ tstatus' = IF r.outcome = "abort" THEN "aborted" ELSE "live"
                  /\ UNCHANGED <<pointers, capacity, heap, mem, ndealloc, misfreed>>
    /\ UNCHANGED <<schema, overflow_checks>>
    /\ UNCHANGED <<avars, gvars, yvars, dvars>>

\* drop(table)
TDrop ==
    /\ tstatus = "live"
    /\ LET old == dropped_blocks(schema, pointers, capacity, heap) IN
       /\ heap' = heap \ old
       /\ mem' = Fill(mem, old, 0)
    /\ ndealloc' = IF drop_size(schema, capacity) > 0 THEN ndealloc + 1 ELSE ndealloc
    /\ misfreed' = misfreed \cup (dealloc_args(schema, pointers, capacity) \ heap)
    /\ tstatus' = "dropped"
    /\ tlast' = Did("drop", 0, 0, "ok")
    /\ UNCHANGED <<schema, overflow_checks, pointers, capacity, nalloc, tops>>
    /\ UNCHANGED <<avars, gvars, yvars, dvars>>

vars == <<avars, gvars, yvars, dvars, tvars>>

\* the arena alone, no table in the program
ArenaOnly ==
    /\ schema = <<>>
    /\ overflow_checks = TRUE
    /\ tstatus = "none"
    /\ pointers = <<>>
    /\ capacity = 0
    /\ heap = {}
    /\ mem = <<>>
    /\ nalloc = 0
    /\ ndealloc = 0
    /\ misfreed = {}
    /\ tlast = NoOp
    /\ tops = 0

ArenaStep == Alloc /\ UNCHANGED <<gvars, yvars, dvars, tvars>>

InitArena == ArenaInit /\ GrowthInit /\ YardInit /\ CellIdle /\ ArenaOnly

SpecArena == InitArena /\ [][ArenaStep]_vars

\* one table, no arena call
TableNext == TDefault \/ TWithCapacity \/ TFill \/ TReserve \/ TDrop

InitTable == ArenaInit /\ GrowthInit /\ YardInit /\ CellIdle /\ TableInit

SpecTable == InitTable /\ [][TableNext]_vars

\* two arenas, allocated from and dropped in any order
YardStep == (\E x \in Arenas : YAlloc(x) \/ YDrop(x)) /\ UNCHANGED <<avars, gvars, dvars, tvars>>

InitYard == ArenaInit /\ GrowthInit /\ YardInit /\ CellIdle /\ ArenaOnly

SpecYard == InitYard /\ [][YardStep]_vars

\* one arena, its slab list growing
GrowthStep == (GrowStandard \/ GrowOneOff \/ GrowRefused) /\ UNCHANGED <<avars, yvars, dvars, tvars>>

InitGrowth == ArenaInit /\ GrowthInit /\ YardInit /\ CellIdle /\ ArenaOnly

SpecGrowth == InitGrowth /\ [][GrowthStep]_vars

\* one record in a Cell, written through projections of its fields
CellStep == ProjectSet /\ UNCHANGED <<avars, gvars, yvars, tvars>>

InitCell == ArenaInit /\ GrowthInit /\ YardInit /\ CellInit /\ ArenaOnly

SpecCell == InitCell /\ [][CellStep]_vars

----------------------------------------------------------------------------
(* Claims about the arena                                                  *)

\* [base, base+len) of slab s holds the whole range [addr, addr+size)
InSlab(addr, size, s) == s.base <= addr /\ addr + size <= s.base + s.size

\* the slabs of the arena that hold the range
Holders(addr, size) == { i \in 1..Len(slabs) : InSlab(addr, size, slabs[i]) }

\* the slab list is the one before the last call, plus at most one pushed slab
SlabsOnlyGrow ==
    \/ slabs = alast.slabs0
    \/ /\ Len(slabs) = Len(alast.slabs0) + 1
       /\ SubSeq(slabs, 1, Len(alast.slabs0)) = alast.slabs0

\* C1: every non-null address alloc returns is a multiple of the requested
\* align, and its range shares no byte with any range the arena returned
\* earlier, whichever of the three paths served either call.
C1_AlignedAndDisjoint ==
    alast.ptr # NULL =>
        /\ alast.ptr % alast.align = 0
        /\ \A r \in returned : Disjoint(alast.ptr, alast.size, r.addr, r.size)

C1_Witness ==
    /\ alast.path = "fast" /\ alast.size > 0 /\ alast.align > 1
    /\ \E r \in returned : r.path = "oneoff" /\ r.size > 0
    /\ \E r \in returned : r.path = "standard" /\ r.size > 0

\* C2 as stated: every range returned so far lies inside exactly one slab the
\* arena owns, and the slab list only grows, by at most one slab per call.
C2_EveryRangeInOneSlab ==
    /\ \A r \in Handed : Cardinality(Holders(r.addr, r.size)) = 1
    /\ SlabsOnlyGrow

\* C2 amended: every non-empty range returned so far lies inside exactly one
\* owned slab; an empty range sits at the dangling sentinel or inside (or on
\* the edge of) an owned slab; the slab list only grows, by at most one slab
\* per call.
C2_NonEmptyRangeInOneSlab ==
    /\ \A r \in Handed :
          IF r.size > 0
          THEN Cardinality(Holders(r.addr, r.size)) = 1
          ELSE r.addr = DANGLING \/ Holders(r.addr, r.size) # {}
    /\ SlabsOnlyGrow

C2_Witness ==
    /\ Len(slabs) >= 3
    /\ Cardinality({ r \in Handed : r.size > 0 }) >= 3
    /\ \E r \in returned : r.size > 0 /\ r.path = "standard"

\* C3: a request that does not fit the current slab and whose padded size
\* exceeds SLAB_SIZE gets one new slab of exactly size + align - 1 bytes
\* pushed, an aligned address whose range lies in that slab, and leaves next
\* and end as they were.
C3_OneOffLeavesCursor ==
    LET firstFit == ((alast.next0 + alast.align - 1) \div alast.align) * alast.align IN
    ( /\ alast.path # "none"
      /\ alast.ptr # NULL
      /\ firstFit + alast.size > alast.end0
      /\ alast.size + alast.align - 1 > SLAB_SIZE )
    =>
    ( /\ Len(slabs) = Len(alast.slabs0) + 1
      /\ SubSeq(slabs, 1, Len(alast.slabs0)) = alast.slabs0
      /\ slabs[Len(slabs)].size = alast.size + alast.align - 1
      /\ alast.ptr % alast.align = 0
      /\ InSlab(alast.ptr, alast.size, slabs[Len(slabs)])
      /\ next = alast.next0
      /\ end = alast.end0 )

C3_Witness ==
    /\ alast.path = "oneoff" /\ alast.ptr # NULL
    /\ alast.slabs0 # <<>>
    /\ alast.next0 < alast.end0
    /\ alast.align > 1 /\ alast.ptr # slabs[Len(slabs)].base

----------------------------------------------------------------------------
(* Claims about the table                                                  *)

\* the record type has zero total size: no field, or zero-sized fields only
ZeroSized == \A i \in 1..Len(schema) : schema[i].size = 0

\* the largest field alignment (1 without fields)
RecordAlign ==
    CHOOSE a \in {1} \cup {schema[i].align : i \in 1..Len(schema)} :
        \A i \in 1..Len(schema) : schema[i].align <= a

RoundUp(x, a) == ((x + a - 1) \div a) * a

\* the rounded span of field i for n elements, in unbounded arithmetic
ExactSpan(i, n) == RoundUp(n * schema[i].size, RecordAlign)

RECURSIVE ExactTotal(_, _)
ExactTotal(i, n) == IF i = 0 THEN 0 ELSE ExactTotal(i - 1, n) + ExactSpan(i, n)

\* some product, round-up or running sum for n elements exceeds usize::MAX
ExactOverflows(n) ==
    \E i \in 1..Len(schema) :
        \/ n * schema[i].size > UsizeMax
        \/ ExactSpan(i, n) > UsizeMax
        \/ ExactTotal(i, n) > UsizeMax

Returned(o) == o \in {"ok", "return", "grown"}

\* the last operation was a reserve_exact(used, extra) that returned
ReserveReturned == tlast.op = "reserve_exact" /\ Returned(tlast.outcome)

\* C4: after a reserve_exact(used, extra) with used <= capacity that returns,
\* every field's array read through the new field pointer holds at each index
\* below used the value it held there before the call.
C4_RoundTripUnderGrowth ==
    (ReserveReturned /\ tlast.a <= tlast.capacity0) =>
        \A f \in 1..Len(schema) :
            schema[f].size > 0 =>
                \A i \in 0..(tlast.a - 1) :
                    Elem(mem, pointers, schema, f, i)
                        = Elem(tlast.mem0, tlast.pointers0, schema, f, i)

C4_Witness ==
    /\ tlast.op = "reserve_exact" /\ tlast.outcome = "grown"
    /\ tlast.a = 2 /\ tlast.capacity0 = 2
    /\ Len(schema) = 3 /\ schema[3].size = 8
    /\ pointers # tlast.pointers0
    /\ Elem(mem, pointers, schema, 3, 1) = [k \in 0..7 |-> Pattern(2, 3, 1, k)]

\* C5: while the table lives, ptr(field i) is non-null and a multiple of
\* field i's own alignment.
C5_PointersAligned ==
    tstatus = "live" =>
        \A i \in 1..Len(schema) : ptr(i) # NULL /\ ptr(i) % schema[i].align = 0

C5_Witness ==
    /\ tstatus = "live" /\ tlast.op = "reserve_exact" /\ tlast.outcome = "grown"
    /\ Len(schema) = 3 /\ schema[3].align = 8
    /\ ptr(1) \in HeapAddrs /\ ptr(1) < ptr(2) /\ ptr(2) < ptr(3)

\* C6: reserve_exact(used, extra) with capacity - used >= extra returns without
\* calling alloc or dealloc and leaves capacity, the field pointers and every
\* stored byte as they were.
C6_NoOpWithHeadroom ==
    (tlast.op = "reserve_exact" /\ tlast.capacity0 - tlast.a >= tlast.b) =>
        /\ tlast.outcome = "return"
        /\ capacity = tlast.capacity0
        /\ pointers = tlast.pointers0
        /\ mem = tlast.mem0
        /\ nalloc = tlast.nalloc0
        /\ ndealloc = tlast.ndealloc0

C6_Witness ==
    /\ tlast.op = "reserve_exact" /\ tlast.outcome = "return"
    /\ ~ZeroSized /\ tlast.capacity0 = 2 /\ tlast.a = 1 /\ tlast.b = 1
    /\ \E a \in HeapAddrs : mem[a] > 0

\* C7: a reserve_exact(used, extra) for which capacity - used >= extra is false
\* of the integers, and which returns, leaves a capacity greater than before
\* and at least used + extra.
C7_GrowsWhenShort ==
    (ReserveReturned /\ ~(tlast.capacity0 - tlast.a >= tlast.b)) =>
        /\ capacity > tlast.capacity0
        /\ capacity >= tlast.a + tlast.b

\* C8: with_capacity(n) fails with capacity overflow whenever a product, a
\* round-up or the running sum exceeds usize::MAX; reserve_exact fails with it
\* whenever used + extra exceeds usize::MAX; and no live table has a backing
\* block smaller than the exact sum of the rounded spans for its capacity.
C8_OverflowFails ==
    /\ (tlast.op = "with_capacity" /\ ExactOverflows(tlast.a))
          => tlast.outcome = "capacity overflow"
    /\ (tlast.op = "reserve_exact" /\ tlast.a + tlast.b > UsizeMax)
          => tlast.outcome = "capacity overflow"
    /\ (tstatus = "live" /\ ~ZeroSized /\ capacity > 0)
          => \E blk \in heap :
                blk.base = ptr(1) /\ blk.size >= ExactTotal(Len(schema), capacity)

\* the last operation was a with_capacity(0) that returned a table of several fields
EmptyTableBuilt ==
    /\ tlast.op = "with_capacity" /\ tlast.a = 0 /\ tlast.outcome = "ok"
    /\ tstatus = "live"
    /\ Len(schema) >= 2

\* with_capacity(0) called no allocator and reports capacity 0 unless zero-sized
EmptyTableUsable ==
    /\ nalloc = tlast.nalloc0
    /\ heap = {}
    /\ ~ZeroSized => capacity = 0

\* C9 as stated: with_capacity(0) for a record of several fields returns a
\* usable table whose field pointers are pairwise distinct and each aligned to
\* its own field's alignment.
C9_EmptyTableDistinctPointers ==
    EmptyTableBuilt =>
        /\ EmptyTableUsable
        /\ \A i, j \in 1..Len(schema) : i # j => ptr(i) # ptr(j)
        /\ \A i \in 1..Len(schema) : ptr(i) # NULL /\ ptr(i) % schema[i].align = 0

\* C9 amended: with_capacity(0) for a record of several fields returns a usable
\* table whose field pointers all equal one non-null sentinel, the largest
\* field alignment, which is aligned to every field's own alignment.
C9_EmptyTableSentinelPointers ==
    EmptyTableBuilt =>
        /\ EmptyTableUsable
        /\ \A i \in 1..Len(schema) :
              ptr(i) = RecordAlign /\ ptr(i) # NULL /\ ptr(i) % schema[i].align = 0

C9_Witness ==
    /\ EmptyTableBuilt
    /\ ~ZeroSized
    /\ \E i, j \in 1..Len(schema) : schema[i].align # schema[j].align

\* C10: for a record type of zero total size a live table reports capacity
\* usize::MAX, and neither alloc nor dealloc is ever called, drop included.
C10_ZeroSizedUnbounded ==
    ZeroSized =>
        /\ tstatus = "live" => capacity = UsizeMax
        /\ nalloc = 0 /\ ndealloc = 0 /\ heap = {}
        /\ tstatus # "aborted"

C10_Witness ==
    /\ ZeroSized /\ Len(schema) >= 2
    /\ tstatus = "dropped"
    /\ tlast.op = "drop" /\ tlast.capacity0 = UsizeMax

\* C11: every dealloc call names a block that is out, with the address, size
\* and alignment it was granted with (so none is released twice); a table
\* owns at most one block; a reallocating reserve_exact has released the old
\* block and holds the new one; and once the table is dropped no block is
\* left out and alloc and dealloc have been called equally often.
C11_ReleasedExactlyOnce ==
    tstatus # "aborted" =>
        /\ misfreed = {}
        /\ Cardinality(heap) <= 1
        /\ nalloc - ndealloc = Cardinality(heap)
        /\ (tstatus = "live" /\ heap # {}) => \A blk \in heap : blk.base = ptr(1)
        /\ (tlast.op = "reserve_exact" /\ tlast.outcome = "grown")
              => heap \cap tlast.heap0 = {} /\ Cardinality(heap) = 1
        /\ tstatus \in {"none", "dropped"} => heap = {}

C11_Witness ==
    /\ tstatus = "dropped"
    /\ nalloc = 3 /\ ndealloc = 3
    /\ heap = {} /\ misfreed = {}

\* C13: when the system allocator refuses the buffer of a new standard or
\* one-off slab, alloc returns null, and the slab list, next and end are
\* what they were before the call; alloc returns null in no other case.
C13_FailureLeavesArena ==
    /\ alast.failed =>
          /\ alast.ptr = NULL
          /\ slabs = alast.slabs0
          /\ next = alast.next0
          /\ end = alast.end0
    /\ (alast.path # "none" /\ alast.ptr = NULL) => alast.failed

\* a refused standard slab on an arena that has handed out ranges from two slabs
C13_Witness ==
    /\ alast.failed
    /\ alast.path = "standard"
    /\ Len(slabs) = 2
    /\ Cardinality(returned) = 3

\* C15: next <= end always; once a standard slab exists the free tail
\* [next, end) lies inside the newest standard slab and shares no byte with
\* any range handed out.
C15_FreeTailInCurrentSlab ==
    /\ next <= end
    /\ stdslab # 0 =>
          /\ slabs[stdslab].base <= next
          /\ end <= slabs[stdslab].base + slabs[stdslab].size
          /\ \A r \in Handed : Disjoint(next, end - next, r.addr, r.size)

\* a free tail left in the standard slab after a one-off slab was appended
\* behind it and a later range was cut from the tail
C15_Witness ==
    /\ stdslab = 1
    /\ Len(slabs) = 2
    /\ alast.path = "fast" /\ alast.size > 0
    /\ next < end
    /\ Cardinality(Handed) = 3

\* the smallest multiple of align that is at least n
MultipleAtLeast(n, align) == ((n + align - 1) \div align) * align

\* C16: when the smallest multiple of align at or above next, plus size, is
\* at most end, alloc returns that address, sets next to that address plus
\* size and leaves end and the slab list as they were; otherwise, and only
\* then, it takes the new-slab path.
C16_FastPath ==
    alast.path # "none" =>
        LET a == MultipleAtLeast(alast.next0, alast.align) IN
        IF a + alast.size <= alast.end0
        THEN /\ alast.path = "fast"
             /\ alast.ptr = a
             /\ next = a + alast.size
             /\ end = alast.end0
             /\ slabs = alast.slabs0
        ELSE alast.path \in {"standard", "oneoff"}

\* a fast-path call that skipped padding to reach an 8-aligned address
C16_Witness ==
    /\ alast.path = "fast"
    /\ alast.align = 8 /\ alast.size = 1
    /\ alast.ptr > alast.next0
    /\ returned # {}

\* the multiplier after doubling once for every full 128 slabs, 30 times at most
RECURSIVE Doubled(_)
Doubled(k) ==
    IF k < 128 THEN 1
    ELSE IF k >= 30 * 128 THEN 1073741824
    ELSE 2 * Doubled(k - 128)

\* C17: a standard slab pushed when the arena owns k slabs of either kind has
\* size 0x1000 * 2^min(30, floor(k / 128)): the base size for the first 128
\* slabs, never less than the standard slab before it, never more than
\* 0x1000 * 2^30.
C17_SlabGrowth ==
    glast.kind = "standard" =>
        /\ stdunits = glast.units
        /\ SLAB_SIZE = 4096
        /\ glast.units = Doubled(glast.k0)
        /\ glast.k0 < 128 => glast.units = 1
        /\ glast.units >= glast.prev
        /\ glast.units <= 1073741824

\* the first standard slab at the capped multiplier, following a standard slab
\* of an earlier, smaller size
C17_Witness ==
    /\ glast.kind = "standard"
    /\ glast.k0 = 30 * 128
    /\ glast.units = 1073741824
    /\ glast.prev = 256

\* the last operation was a reserve_exact that reallocated
ReserveGrown == tlast.op = "reserve_exact" /\ tlast.outcome = "grown"

\* the bytes a block granted by the call recorded in tlast holds before
\* anything is stored in it
FreshByte == -(tlast.nalloc0 + 1)

\* C18 as stated: a reallocating reserve_exact(used, extra) leaves the elements
\* at indices in [used, old capacity) of every field uncopied
C18_CopiesUsedOnly ==
    ReserveGrown =>
        \A f \in 1..Len(schema) :
            \A i \in tlast.a..(tlast.capacity0 - 1) :
                \A k \in 0..(schema[f].size - 1) :
                    Elem(mem, pointers, schema, f, i)[k] = FreshByte

\* C18: a reallocating reserve_exact(used, extra) copies for each field the
\* whole old array, old capacity * SIZES[i] bytes: every element below the old
\* capacity, those at or above used included, is in the new array, and the
\* bytes of the new array past them are untouched.
C18_CopiesOldCapacity ==
    ReserveGrown =>
        \A f \in 1..Len(schema) :
            /\ \A i \in 0..(tlast.capacity0 - 1) :
                  Elem(mem, pointers, schema, f, i)
                      = Elem(tlast.mem0, tlast.pointers0, schema, f, i)
            /\ \A i \in tlast.capacity0..(capacity - 1) :
                  \A k \in 0..(schema[f].size - 1) :
                      Elem(mem, pointers, schema, f, i)[k] = FreshByte

\* a filled table of capacity 2 regrown by reserve_exact(1, 2): the element at
\* index 1, above used, arrives in the new array
C18_Witness ==
    /\ ReserveGrown
    /\ tlast.a = 1 /\ tlast.b = 2 /\ tlast.capacity0 = 2 /\ capacity = 3
    /\ Len(schema) = 2 /\ schema[1].size = 2
    /\ Elem(mem, pointers, schema, 1, 1) = [k \in 0..1 |-> Pattern(1, 1, 1, k)]
    /\ Elem(mem, pointers, schema, 2, 2) = [k \in 0..1 |-> FreshByte]

\* the table is laid out for n elements: one block of the summed rounded spans
\* and the record's alignment (none when the sum is 0), field arrays back to
\* back from its base in schema order, their element ranges apart and inside it
LaidOutFor(n) ==
    LET N == Len(schema)
        total == ExactTotal(N, n) IN
    /\ total > 0 =>
          heap = {[base |-> ptr(1), size |-> total, align |-> RecordAlign]}
    /\ total = 0 => heap = {}
    /\ \A i \in 1..(N - 1) : ptr(i + 1) = ptr(i) + ExactSpan(i, n)
    /\ \A i \in 1..N :
          /\ ptr(1) <= ptr(i)
          /\ ptr(i) + n * schema[i].size <= ptr(1) + total
    /\ \A i, j \in 1..N :
          i # j => Disjoint(ptr(i), n * schema[i].size, ptr(j), n * schema[j].size)

\* C19: for a record of nonzero size, after with_capacity(n) and after a
\* reallocating reserve_exact(used, extra) with n = used + extra, the buffer
\* has size sum_i roundup(n * SIZES[i], A) and alignment A, ptr(field 0) is
\* its base, each next pointer follows the previous one by the previous
\* field's rounded span, and the element ranges are disjoint and inside it.
C19_Layout ==
    ~ZeroSized =>
        /\ (tlast.op = "with_capacity" /\ tlast.outcome = "ok") => LaidOutFor(tlast.a)
        /\ ReserveGrown => LaidOutFor(tlast.a + tlast.b)

\* the record of sizes 1, 4, 8 regrown to three elements: spans 8, 16, 24
C19_Witness ==
    /\ ReserveGrown
    /\ Len(schema) = 3 /\ schema[3].size = 8
    /\ tlast.a + tlast.b = 3
    /\ ptr(2) = ptr(1) + 8 /\ ptr(3) = ptr(2) + 16
    /\ \E blk \in heap : blk.size = 48 /\ blk.align = 8

\* [a, a+n) lies inside one of the blocks
InBlock(a, n, blocks) ==
    n = 0 \/ \E blk \in blocks : blk.base <= a /\ a + n <= blk.base + blk.size

\* C20: reserve_exact reaches its copy only with used <= capacity and a new
\* capacity above the old one, in builds that panic on overflow and in builds
\* that wrap; the bytes it copies for a field are then at most the field's
\* span in the old buffer and at most its span in the new one, the source
\* inside the old block and the destination inside the new block.
C20_CopyInBounds ==
    ReserveGrown =>
        /\ tlast.a <= tlast.capacity0
        /\ tlast.capacity0 < capacity
        /\ \A f \in 1..Len(schema) :
              LET len == copy_len(tlast.capacity0, tlast.a, schema[f].size) IN
              /\ len <= RoundUp(tlast.capacity0 * schema[f].size, RecordAlign)
              /\ len <= RoundUp(capacity * schema[f].size, RecordAlign)
              /\ InBlock(tlast.pointers0[f], len, tlast.heap0)
              /\ InBlock(pointers[f], len, heap)

\* a build without overflow checks copying the three arrays of a full table
\* of two elements into the buffer for three
C20_Witness ==
    /\ ReserveGrown
    /\ ~overflow_checks
    /\ Len(schema) = 3 /\ schema[3].size = 8
    /\ tlast.a = 2 /\ tlast.capacity0 = 2 /\ capacity = 3
    /\ copy_len(tlast.capacity0, tlast.a, schema[3].size) = 16
    /\ tlast.heap0 # {}

\* C21: for a record of nonzero size, with_capacity(n) leaves capacity() = n,
\* and every reserve_exact(used, extra) that reallocates, a first or a later
\* one, leaves capacity() = used + extra, no growth factor applied.
C21_ExactReservation ==
    ~ZeroSized =>
        /\ (tlast.op = "with_capacity" /\ tlast.outcome = "ok") => capacity = tlast.a
        /\ ReserveGrown => capacity = tlast.a + tlast.b

\* the second reallocation of a table: from capacity 2 to exactly 3, where
\* doubling would have given 4
C21_Witness ==
    /\ ReserveGrown
    /\ ~ZeroSized
    /\ tops = 2
    /\ tlast.capacity0 = 2
    /\ tlast.a = 2 /\ tlast.b = 1
    /\ capacity = 3

----------------------------------------------------------------------------
(* Claims about two arenas                                                 *)

LiveArenas == { x \in Arenas : yard[x].live }

\* the allocator has out exactly the slabs of the arenas not yet dropped
OnlyOwnSlabsReleased ==
    sysheap = UNION { Blocks(yard[x].self.slabs) : x \in LiveArenas }

RangesApart ==
    \A x, y \in LiveArenas : x # y =>
        \A p \in yard[x].returned, q \in yard[y].returned :
            Disjoint(p.addr, p.size, q.addr, q.size)

----------------------------------------------------------------------------
(* Claims about Cell projection                                            *)

\* where field i of the record is
FieldAddr(i) == object + offsets[i]

\* C14: after project(field i).set(v) field i holds v and every byte outside
\* field i, so every other field, is as before; the projections of different
\* fields address ranges that share no byte and lie inside the record.
C14_ProjectSetsOneField ==
    /\ plast.index # 0 =>
          /\ FieldBytes(bytes, FieldAddr(plast.index), fields[plast.index].size)
                = Encode(plast.v, fields[plast.index].size)
          /\ \A j \in 1..Len(fields) :
                j # plast.index =>
                    FieldBytes(bytes, FieldAddr(j), fields[j].size)
                        = FieldBytes(plast.before, FieldAddr(j), fields[j].size)
          /\ \A a \in DOMAIN bytes :
                ~(FieldAddr(plast.index) <= a
                    /\ a < FieldAddr(plast.index) + fields[plast.index].size)
                    => bytes[a] = plast.before[a]
    /\ \A i, j \in 1..Len(fields) :
          LET p == project(fields, offsets, object, Field(i))
              q == project(fields, offsets, object, Field(j)) IN
          /\ object <= p /\ p + fields[i].size <= object + size_of_S(fields)
          /\ i # j => Disjoint(p, fields[i].size, q, fields[j].size)

\* y set to 13 after x was set to 8, in a record whose fields the compiler
\* laid out in the reverse of declaration order
C14_Witness ==
    /\ Len(fields) = 2 /\ fields[1].size = 4
    /\ offsets[2] < offsets[1]
    /\ plast.index = 2 /\ plast.v = 13
    /\ FieldBytes(bytes, FieldAddr(1), 4) = Encode(8, 4)
    /\ FieldBytes(bytes, FieldAddr(2), 4) = Encode(13, 4)

====
